---- MODULE Spec2Model ----
(***************************************************************************)
(* CarbonSense (src/app.py): the synthetic-data generator (DataGenerator), *)
(* the metrics aggregator (ESGCalculator) and the page dispatch of         *)
(* create_dashboard.                                                       *)
(*                                                                         *)
(* Units.  Floats are carried as scaled integers:                          *)
(*   generation (unrounded)            kW      (1 MW = 1000 kW)            *)
(*   generation_mw, *_tonnes, water    hundredths (round(x, 2) * 100)      *)
(*   timestamps                        minutes since midnight of day 0     *)
(* np.random and Faker are pseudo-random streams seeded from OS entropy:   *)
(* each is a small linear congruential stream whose seed Init chooses, and *)
(* every draw advances the stream it reads, in the order the code draws.   *)
(* A uniform draw takes three sample points of its interval (both ends and *)
(* the middle); the normal draw takes -1, 0 and +1 standard deviations.    *)
(***************************************************************************)
EXTENDS Integers, Sequences, FiniteSets, TLC

VARIABLES
    np_rng,             \* state of the global np.random stream
    fake_rng,           \* state of Faker's stream
    now,                \* datetime.now() read by _generate_operational_data
    pc,                 \* "operational" | "esg" | "ready" | "rendered" | "table"
    asset_i,            \* loop index over ASSETS.items()      (1-based)
    ts_i,               \* loop index over timestamps          (0-based)
    operational_data,   \* DataGenerator.operational_data (sequence of rows)
    esg_data,           \* DataGenerator.esg_data (sequence of audit rows)
    run,                \* how many times create_dashboard has started
    prior_operational_data, \* operational_data of the previous run
    prior_esg_data,     \* esg_data of the previous run
    prior_now,          \* the clock reading of the previous run
    view,               \* what the last page run rendered
    result,             \* the last ESGCalculator call: method, argument, value
    repeat,             \* the last call repeated the call before it
    n_calls             \* ESGCalculator calls made on the table

vars == <<np_rng, fake_rng, now, pc, asset_i, ts_i, operational_data, esg_data,
          run, prior_operational_data, prior_esg_data, prior_now, view,
          result, repeat, n_calls>>

----------------------------------------------------------------------------
(* Bounds of the model *)

\* 15-minute steps in the generated window (the code's 7 days are 672 steps)
WindowSteps == 3
\* audit rows generated (the code generates 100)
AuditRows == 2
\* states of a pseudo-random stream
RngModulus == 32
\* runs of create_dashboard in one server process
MaxRuns == 2
\* rows of a caller-supplied ReadingTable
MaxRows == 2
\* ESGCalculator calls made on one caller-supplied table
MaxCalls == 2

----------------------------------------------------------------------------
(* Arithmetic helpers *)

Max(a, b) == IF a >= b THEN a ELSE b

\* n / d rounded to the nearest integer (d > 0), as round() does
RoundDiv(n, d) == (2 * n + d) \div (2 * d)

----------------------------------------------------------------------------
(* Reference data *)

Freq == 15
MinutesPerDay == 24 * 60

AssetNames ==
    <<"Barmer Thermal", "Karnataka Solar", "Maharashtra Wind", "Himachal Hydro">>

ASSETS ==
    ("Barmer Thermal" :> [type |-> "thermal", capacity |-> 1320, location |-> "Rajasthan"])
 @@ ("Karnataka Solar" :> [type |-> "solar", capacity |-> 500, location |-> "Karnataka"])
 @@ ("Maharashtra Wind" :> [type |-> "wind", capacity |-> 300, location |-> "Maharashtra"])
 @@ ("Himachal Hydro" :> [type |-> "hydro", capacity |-> 240, location |-> "Himachal Pradesh"])

----------------------------------------------------------------------------
(* Pseudo-random streams *)

\* one step of a stream
NextRng(s) == (5 * s + 3) % RngModulus

\* the state after k draws
RECURSIVE RngAfter(_, _)
RngAfter(s, k) == IF k = 0 THEN s ELSE RngAfter(NextRng(s), k - 1)

\* the sample point (0, 1 or 2) a stream state yields
Quantile(s) == (s * 3) \div RngModulus

\* np.random.uniform(lo, hi) at stream state s
Uniform(s, lo, hi) == lo + ((hi - lo) * Quantile(s)) \div 2

\* np.random.normal(0, 50) at stream state s, in units of 50
Normal50(s) == Quantile(s) - 1

\* np.random.choice over n equally likely options: the 1-based index chosen
Choice(s, n) == ((s * n) \div RngModulus) + 1

\* np.random.choice([True, False], p=[0.9, 0.1])
ChoiceVerified(s) == (s * 10) \div RngModulus < 9

----------------------------------------------------------------------------
(* Timestamps *)

\* ts.date() and ts.hour
DateOf(ts) == ts \div MinutesPerDay
HourOf(ts) == (ts % MinutesPerDay) \div 60

\* start_time = end_time - window
StartTime(end_time) == end_time - WindowSteps * Freq

\* pd.date_range(start, end, freq='15min')[k], k = 0 .. WindowSteps
Timestamp(end_time, k) == StartTime(end_time) + k * Freq

\* readings of the clock: twenty past every second hour of day 1
NowSamples == {MinutesPerDay + h * 120 + 20 : h \in 0..11}

----------------------------------------------------------------------------
(* DataGenerator._generate_operational_data, one row *)

\* 100 * sin(hour / 24 * 2 pi), rounded
SinTable == <<0, 26, 50, 71, 87, 97, 100, 97, 87, 71, 50, 26>>
Sin100(hour) == IF hour < 12 THEN SinTable[hour + 1] ELSE 0 - SinTable[hour - 11]

\* the solar shape without the clamp at zero
SolarShapeUnclamped(hour) == 10 - (hour - 12) * (hour - 12)

\* 10 * max(0, -0.1 * (hour - 12)**2 + 1)
SolarShape10(hour) == Max(0, 10 - (hour - 12) * (hour - 12))

\* the unrounded generation in kW; s is the stream state of the uniform draw
Generation(type, capacity, hour, s) ==
    CASE type = "solar" ->
           RoundDiv(((capacity * 75 * Uniform(s, 900, 1100)) \div 100)
                        * SolarShape10(hour), 10)
      [] type = "wind" ->
           RoundDiv(((capacity * 75 * Uniform(s, 300, 1000)) \div 100)
                        * (1000 + Sin100(hour)), 1000)
      [] type = "hydro" ->
           RoundDiv(capacity * 750 * Uniform(s, 500, 1000), 1000)
      [] OTHER ->
           RoundDiv(capacity * 750 * Uniform(s, 850, 1050), 1000)

\* round(generation, 2), in hundredths of a MW
Round2kW(kw) == RoundDiv(kw, 10)

\* fuel in kg: generation * heat_rate / 1000 with heat_rate = 2500 + 50 * z
FuelKg(gen_kw, z) == RoundDiv(gen_kw * (50 + z), 20)

\* emissions in kg: fuel_consumed * 2.5
EmissionsKg(fuel_kg) == RoundDiv(fuel_kg * 5, 2)

\* the fuel block run for every asset type
BurnsFuelAlways(type) == TRUE

\* whether the fuel block of the row runs
BurnsFuel(type) == type = "thermal"

\* the draws one row takes from np.random
DrawsPerRow(type) == IF BurnsFuel(type) THEN 5 ELSE 3

\* the row appended for asset `name` at timestamp ts, from stream state s
ReadingRow(name, ts, s) ==
    LET info    == ASSETS[name]
        thermal == BurnsFuel(info.type)
        s_gen   == RngAfter(s, 1)
        s_heat  == RngAfter(s, 2)
        s_cal   == RngAfter(s, 3)
        s_water == RngAfter(s, IF thermal THEN 4 ELSE 2)
        s_eff   == RngAfter(s, IF thermal THEN 5 ELSE 3)
        gen_kw  == Generation(info.type, info.capacity, HourOf(ts), s_gen)
        fuel_kg == IF thermal THEN FuelKg(gen_kw, Normal50(s_heat)) ELSE 0
        cal     == IF thermal THEN 3800 + Uniform(s_cal, -100, 100) ELSE 0
        em_kg   == IF thermal THEN EmissionsKg(fuel_kg) ELSE 0
    IN  [timestamp                 |-> ts,
         asset_name                |-> name,
         asset_type                |-> info.type,
         capacity                  |-> info.capacity,
         generation_mw             |-> Round2kW(gen_kw),
         fuel_consumed_tonnes      |-> RoundDiv(fuel_kg, 10),
         coal_calorific_value_kcal |-> cal,
         emissions_co2_tonnes      |-> RoundDiv(em_kg, 10),
         water_withdrawal_cum      |-> RoundDiv(Uniform(s_water, 50, 150) * gen_kw, 10000),
         operating_efficiency      |-> Uniform(s_eff, 8500, 9500)]

----------------------------------------------------------------------------
(* DataGenerator._generate_esg_metadata *)

MetricTypes == <<"emissions", "water", "safety", "energy">>
CalculationMethods == <<"GHG_Protocol", "CPCB_Standards", "ISO_14064">>

\* one audit row; it draws four times from each stream
AuditRow(s, f) ==
    [data_point_id        |-> <<"uuid4", RngAfter(f, 1)>>,
     asset_name           |-> AssetNames[Choice(RngAfter(s, 1), Len(AssetNames))],
     metric_type          |-> MetricTypes[Choice(RngAfter(s, 2), Len(MetricTypes))],
     source_system        |-> "PI_System",
     collection_timestamp |-> <<"date_time_this_month", RngAfter(f, 2)>>,
     calculation_method   |-> CalculationMethods[Choice(RngAfter(s, 3), Len(CalculationMethods))],
     auditor_verified     |-> ChoiceVerified(RngAfter(s, 4)),
     lineage_hash         |-> <<"sha256", RngAfter(f, 3)>>,
     last_modified_by     |-> <<"email", RngAfter(f, 4)>>]

\* the n rows of the audit table, from stream states s and f
RECURSIVE EsgMetadata(_, _, _)
EsgMetadata(n, s, f) ==
    IF n = 0 THEN <<>>
    ELSE <<AuditRow(s, f)>> \o EsgMetadata(n - 1, RngAfter(s, 4), RngAfter(f, 4))

----------------------------------------------------------------------------
(* Table helpers (pandas filtering, grouping and summing) *)

\* the Python None passed as asset_name
None == "None"

RECURSIVE Sum(_)
Sum(col) == IF col = <<>> THEN 0 ELSE Head(col) + Sum(Tail(col))

\* the columns of a table
GenerationColumn(df) == [i \in 1..Len(df) |-> df[i].generation_mw]
FuelColumn(df) == [i \in 1..Len(df) |-> df[i].fuel_consumed_tonnes]
EmissionsColumn(df) == [i \in 1..Len(df) |-> df[i].emissions_co2_tonnes]
WaterColumn(df) == [i \in 1..Len(df) |-> df[i].water_withdrawal_cum]

\* the keys of a set in ascending order of the function Rank (groupby sorts its keys)
RECURSIVE SortedKeys(_, _)
SortedKeys(keys, Rank) ==
    IF keys = {} THEN <<>>
    ELSE LET first == CHOOSE k \in keys : \A o \in keys : Rank[k] <= Rank[o]
         IN  <<first>> \o SortedKeys(keys \ {first}, Rank)

\* string order of the asset names
NameRank(name) ==
    CASE name = "Barmer Thermal" -> 1
      [] name = "Himachal Hydro" -> 2
      [] name = "Karnataka Solar" -> 3
      [] name = "Maharashtra Wind" -> 4
      [] OTHER -> 5

\* the words of an asset name
NameWords(name) ==
    CASE name = "Barmer Thermal" -> <<"Barmer", "Thermal">>
      [] name = "Himachal Hydro" -> <<"Himachal", "Hydro">>
      [] name = "Karnataka Solar" -> <<"Karnataka", "Solar">>
      [] name = "Maharashtra Wind" -> <<"Maharashtra", "Wind">>
      [] OTHER -> <<name>>

\* str.contains('Solar|Wind|Hydro') on an asset name
ContainsRenewableWord(name) ==
    \E i \in DOMAIN NameWords(name) : NameWords(name)[i] \in {"Solar", "Wind", "Hydro"}

----------------------------------------------------------------------------
(* Float results *)

NaN == [kind |-> "nan", value |-> 0]
Inf == [kind |-> "inf", value |-> 0]
Finite(v) == [kind |-> "finite", value |-> v]

\* floor(n * scale / d) without leaving 32 bits (n >= 0, d > 0)
ScaledQuot(n, d, scale) == (n \div d) * scale + ((n % d) * scale) \div d

\* numpy/pandas float division n / d, the quotient kept in 1/scale units:
\* a zero divisor gives nan (0 / 0) or inf (x / 0) and raises nothing
FloatDiv(n, d, scale) ==
    IF d = 0 THEN (IF n = 0 THEN NaN ELSE Inf) ELSE Finite(ScaledQuot(n, d, scale))

\* Series.mean(): nan entries are skipped; no entry left gives nan
MeanSkipNa(col) ==
    LET idx == {i \in DOMAIN col : col[i].kind # "nan"}
        fin == {i \in idx : col[i].kind = "finite"}
        vals == SortedKeys(fin, [i \in fin |-> i])
    IN  IF idx = {} THEN NaN
        ELSE IF fin # idx THEN Inf
        ELSE Finite(Sum([k \in 1..Len(vals) |-> col[vals[k]].value]) \div Cardinality(idx))

----------------------------------------------------------------------------
(* ESGCalculator *)

\* the asset filter dropped
FilterAssetIgnored(df, asset_name) == df

\* df[df['asset_name'] == asset_name] when a name is given
FilterAsset(df, asset_name) ==
    IF asset_name # None
    THEN SelectSeq(df, LAMBDA r : r.asset_name = asset_name)
    ELSE df

\* df[df['asset_type'] == 'thermal']
ThermalRows(df) == SelectSeq(df, LAMBDA r : r.asset_type = "thermal")

\* grouping by the full timestamp instead of its date
Scope1KeyTimestamp(r) == r.timestamp

\* the grouping key of calculate_scope1_emissions: timestamp.dt.date
Scope1Key(r) == DateOf(r.timestamp)

\* calculate_scope1_emissions(asset_name) on table df
calculate_scope1_emissions(df, asset_name) ==
    LET thermal_df == ThermalRows(FilterAsset(df, asset_name))
        keys == {Scope1Key(thermal_df[i]) : i \in 1..Len(thermal_df)}
        order == SortedKeys(keys, [d \in keys |-> d])
        group(d) == SelectSeq(thermal_df, LAMBDA r : Scope1Key(r) = d)
    IN  [k \in 1..Len(order) |->
            [timestamp            |-> order[k],
             generation_mw        |-> Sum(GenerationColumn(group(order[k]))),
             fuel_consumed_tonnes |-> Sum(FuelColumn(group(order[k]))),
             emissions_co2_tonnes |-> Sum(EmissionsColumn(group(order[k])))]]

\* grouping by the date alone
WaterKeyDateOnly(r) == <<DateOf(r.timestamp), "all">>

\* the grouping key of calculate_water_intensity: (timestamp.dt.date, asset_name)
WaterKey(r) == <<DateOf(r.timestamp), r.asset_name>>

\* water_withdrawal_cum / generation_mw of one bucket, in 1/10000 units
WaterIntensity(water_sum, generation_sum) == FloatDiv(water_sum, generation_sum, 10000)

\* calculate_water_intensity() on table df
calculate_water_intensity(df) ==
    LET keys == {WaterKey(df[i]) : i \in 1..Len(df)}
        order == SortedKeys(keys, [k \in keys |-> k[1] * 10 + NameRank(k[2])])
        group(key) == SelectSeq(df, LAMBDA r : WaterKey(r) = key)
    IN  [k \in 1..Len(order) |->
            LET g == Sum(GenerationColumn(group(order[k])))
                w == Sum(WaterColumn(group(order[k])))
            IN  [timestamp            |-> order[k][1],
                 asset_name           |-> order[k][2],
                 generation_mw        |-> g,
                 water_withdrawal_cum |-> w,
                 water_intensity      |-> WaterIntensity(w, g)]]

\* (emissions total * 1000) / generation total, in kg per MWh
EmissionIntensity(emissions_total, generation_total) ==
    FloatDiv(emissions_total, generation_total, 1000)

\* the renewable share taken over generation instead of over bucket rows
RenewableEnergyShare(water) ==
    LET gen(i) == IF ContainsRenewableWord(water[i].asset_name)
                  THEN water[i].generation_mw ELSE 0
        total == Sum([i \in 1..Len(water) |-> water[i].generation_mw])
    IN  IF total = 0 THEN NaN
        ELSE Finite(ScaledQuot(Sum([i \in 1..Len(water) |-> gen(i)]), total, 10000))

\* len(water[name contains Solar|Wind|Hydro]) / len(water) * 100, in 1/100 percent;
\* Python's int division raises on an empty aggregate
RenewablePercentage(water) ==
    LET match == {i \in 1..Len(water) : ContainsRenewableWord(water[i].asset_name)}
    IN  IF Len(water) = 0 THEN [kind |-> "ZeroDivisionError", value |-> 0]
        ELSE Finite(ScaledQuot(Cardinality(match) * 100, Len(water), 100))

\* np.random.uniform(95, 100) at stream state s, in hundredths
DataQualityScore(s) == Uniform(s, 9500, 10000)

\* the dict brsr_data built by generate_brsr_report on table df; s is the state
\* of the np.random stream after the draw the report makes
BrsrData(df, reporting_period, s) ==
    LET scope1 == calculate_scope1_emissions(df, None)
        water == calculate_water_intensity(df)
        renewable == RenewablePercentage(water)
    IN  IF renewable.kind = "ZeroDivisionError"
        THEN [raised |-> "ZeroDivisionError"]
        ELSE [raised |-> "none",
              Reporting_Period |-> reporting_period,
              Scope1_Emissions_Total_tCO2e |-> Sum(EmissionsColumn(scope1)),
              Energy_Generation_Total_MWh |-> Sum(GenerationColumn(scope1)),
              Emission_Intensity_kgCO2_per_MWh |->
                  EmissionIntensity(Sum(EmissionsColumn(scope1)), Sum(GenerationColumn(scope1))),
              Water_withdrawal_Total_m3 |-> Sum(WaterColumn(water)),
              Water_Intensity_m3_per_MWh |->
                  MeanSkipNa([i \in 1..Len(water) |-> water[i].water_intensity]),
              Renewable_Energy_Percentage |-> renewable,
              Data_Quality_Score |-> DataQualityScore(s)]

\* the report with its mean water intensity simulated the way the score is
BrsrReportSimulated(df, reporting_period, s) ==
    <<[BrsrData(df, reporting_period, s) EXCEPT
          !.Water_Intensity_m3_per_MWh = Finite(Uniform(s, 0, 100))]>>

\* generate_brsr_report(reporting_period): the one-row frame of brsr_data
generate_brsr_report(df, reporting_period, s) == <<BrsrData(df, reporting_period, s)>>

----------------------------------------------------------------------------
(* Actions of the generator *)

NoView == [page |-> "none", pressed |-> FALSE, error |-> "none", shown |-> <<>>]
NoResult == [method |-> "none", arg |-> "none", value |-> <<>>]

FakerSeeds == {0, RngModulus \div 2}

Init ==
    /\ np_rng \in 0..(RngModulus - 1)
    /\ fake_rng \in FakerSeeds
    /\ now \in NowSamples
    /\ pc = "operational"
    /\ asset_i = 1
    /\ ts_i = 0
    /\ operational_data = <<>>
    /\ esg_data = <<>>
    /\ run = 1
    /\ prior_operational_data = <<>>
    /\ prior_esg_data = <<>>
    /\ prior_now = 0
    /\ view = NoView
    /\ result = NoResult
    /\ repeat = FALSE
    /\ n_calls = 0

\* one iteration of the inner loop of _generate_operational_data
GenerateRow ==
    /\ pc = "operational"
    /\ LET name == AssetNames[asset_i]
           last == ts_i = WindowSteps
       IN  /\ operational_data' =
                 Append(operational_data, ReadingRow(name, Timestamp(now, ts_i), np_rng))
           /\ np_rng' = RngAfter(np_rng, DrawsPerRow(ASSETS[name].type))
           /\ ts_i' = IF last THEN 0 ELSE ts_i + 1
           /\ asset_i' = IF last THEN asset_i + 1 ELSE asset_i
           /\ pc' = IF last /\ asset_i = Len(AssetNames) THEN "esg" ELSE "operational"
    /\ UNCHANGED <<fake_rng, now, esg_data, run, prior_operational_data,
                   prior_esg_data, prior_now, view, result, repeat, n_calls>>

\* _generate_esg_metadata, then the constructor returns
GenerateEsg ==
    /\ pc = "esg"
    /\ esg_data' = EsgMetadata(AuditRows, np_rng, fake_rng)
    /\ np_rng' = RngAfter(np_rng, 4 * AuditRows)
    /\ fake_rng' = RngAfter(fake_rng, 4 * AuditRows)
    /\ pc' = "ready"
    /\ UNCHANGED <<now, asset_i, ts_i, operational_data, run, prior_operational_data,
                   prior_esg_data, prior_now, view, result, repeat, n_calls>>

----------------------------------------------------------------------------
(* AuditTrail *)

\* get_lineage(data_point_id): the audit rows carrying that identifier
get_lineage(metadata, data_point_id) ==
    SelectSeq(metadata, LAMBDA r : r.data_point_id = data_point_id)

----------------------------------------------------------------------------
(* create_dashboard: the local variables each statement reads and assigns *)

Stmt(uses, defs) == [uses |-> uses, defs |-> defs]

\* lines 170-183: the pipeline and the page selector
Prologue ==
    <<Stmt({}, {"dg"}), Stmt({"dg"}, {"calc"}), Stmt({"dg"}, {"audit"}), Stmt({}, {"page"})>>

\* lines 185-222
LiveBlock ==
    <<Stmt({"page"}, {}),
      Stmt({}, {"col1", "col2", "col3", "col4"}),
      Stmt({"calc"}, {"scope1_data"}),
      Stmt({"scope1_data"}, {"total_emissions"}),
      Stmt({"dg"}, {"total_gen"}),
      Stmt({"calc"}, {"water_data"}),
      Stmt({"col1", "total_emissions"}, {}),
      Stmt({"col2", "total_emissions", "total_gen"}, {}),
      Stmt({"col3", "water_data"}, {}),
      Stmt({"col4"}, {}),
      Stmt({"scope1_data"}, {"fig"}),
      Stmt({"fig"}, {}),
      Stmt({"dg"}, {"latest_data"}),
      Stmt({"latest_data"}, {})>>

\* lines 224-257; the block under `if generate:` runs when the button is pressed
BrsrBlock(generate) ==
    <<Stmt({"page"}, {}),
      Stmt({}, {"col1", "col2"}),
      Stmt({"col1"}, {}),
      Stmt({}, {"reporting_period"}),
      Stmt({}, {"generate"}),
      Stmt({"generate"}, {})>>
    \o (IF generate
        THEN <<Stmt({"calc", "reporting_period"}, {"brsr"}),
               Stmt({"brsr"}, {"col"}),
               Stmt({"col", "brsr"}, {}),
               Stmt({}, {"excel_buffer"}),
               Stmt({"brsr", "excel_buffer"}, {}),
               Stmt({"excel_buffer"}, {"excel_data"}),
               Stmt({"excel_data"}, {"b64"}),
               Stmt({"b64", "reporting_period"}, {"href"}),
               Stmt({"href"}, {}),
               Stmt({"scope1_data"}, {})>>
        ELSE <<>>)

\* lines 259-284
AuditBlock(trace) ==
    <<Stmt({"page"}, {}),
      Stmt({"audit"}, {"packet"}),
      Stmt({"packet"}, {}),
      Stmt({"dg"}, {"anomalies"}),
      Stmt({"anomalies"}, {}),
      Stmt({"dg"}, {"search_id"})>>
    \o (IF trace
        THEN <<Stmt({"audit", "search_id"}, {"lineage"}), Stmt({"lineage"}, {})>>
        ELSE <<>>)

\* lines 286-328
SimulatorBlock(simulate) ==
    <<Stmt({"page"}, {}),
      Stmt({}, {"col1", "col2"}),
      Stmt({"col1"}, {}),
      Stmt({}, {"scenario_name"}),
      Stmt({}, {"biomass_perc"}),
      Stmt({}, {"re_expansion"}),
      Stmt({"col2"}, {}),
      Stmt({}, {"target_year"}),
      Stmt({}, {"carbon_price"})>>
    \o (IF simulate
        THEN <<Stmt({"calc"}, {"baseline_emissions"}),
               Stmt({"baseline_emissions", "calc"}, {"baseline_intensity"}),
               Stmt({"baseline_emissions", "biomass_perc"}, {"emissions_reduced"}),
               Stmt({"re_expansion"}, {"new_re_gen"}),
               Stmt({"baseline_emissions", "emissions_reduced", "baseline_intensity",
                     "new_re_gen"}, {"new_intensity"}),
               Stmt({}, {"col1", "col2", "col3"}),
               Stmt({"col1", "emissions_reduced"}, {}),
               Stmt({"col2", "new_intensity", "baseline_intensity"}, {}),
               Stmt({"col3", "emissions_reduced", "carbon_price"}, {}),
               Stmt({}, {"fig"}),
               Stmt({"fig", "target_year", "baseline_intensity", "new_intensity"}, {}),
               Stmt({"fig"}, {})>>
        ELSE <<>>)

\* lines 330-353
AssetBlock ==
    <<Stmt({"page"}, {}),
      Stmt({}, {"selected_asset"}),
      Stmt({"dg", "selected_asset"}, {"asset_data"}),
      Stmt({}, {"col1", "col2", "col3"}),
      Stmt({"col1", "asset_data", "selected_asset"}, {}),
      Stmt({"col2", "selected_asset", "asset_data"}, {}),
      Stmt({"col3", "asset_data"}, {}),
      Stmt({"asset_data", "selected_asset"}, {"fig"}),
      Stmt({"fig"}, {})>>

\* the first local a run of the statements reads before any statement assigned
\* it (Python raises UnboundLocalError there), or "none"
RECURSIVE FirstUnbound(_, _)
FirstUnbound(stmts, assigned) ==
    IF stmts = <<>> THEN "none"
    ELSE LET missing == Head(stmts).uses \ assigned
         IN  IF missing # {} THEN CHOOSE v \in missing : TRUE
             ELSE FirstUnbound(Tail(stmts), assigned \cup Head(stmts).defs)

\* one run of create_dashboard down the branch of the selected page
RunPage(block) == FirstUnbound(Prologue \o block, {})

\* the options of the reporting-period select box
ReportingPeriods == {"Q1-2024", "Q2-2024", "FY2023-24", "FY2024-25"}

----------------------------------------------------------------------------
(* Actions of create_dashboard, after the generator has run *)

\* the page body has run: what it rendered and the draws it took
Rendered(v, draws) ==
    /\ view' = v
    /\ np_rng' = RngAfter(np_rng, draws)
    /\ pc' = "rendered"
    /\ UNCHANGED <<fake_rng, now, asset_i, ts_i, operational_data, esg_data, run,
                   prior_operational_data, prior_esg_data, prior_now,
                   result, repeat, n_calls>>

\* page "Live ESG Command Center": three metric deltas are drawn
LiveCommandCenter ==
    /\ pc = "ready"
    /\ Rendered([page |-> "Live ESG Command Center", pressed |-> FALSE,
                 error |-> RunPage(LiveBlock),
                 shown |-> calculate_scope1_emissions(operational_data, None)], 3)

\* page "BRSR Report Generator"
BrsrReportGenerator ==
    /\ pc = "ready"
    /\ \E generate \in BOOLEAN, reporting_period \in ReportingPeriods :
        Rendered([page |-> "BRSR Report Generator", pressed |-> generate,
                  error |-> RunPage(BrsrBlock(generate)),
                  shown |-> IF generate
                            THEN generate_brsr_report(operational_data, reporting_period,
                                                      RngAfter(np_rng, 1))
                            ELSE <<>>],
                 IF generate THEN 1 ELSE 0)

\* page "Data Audit Trail"
DataAuditTrail ==
    /\ pc = "ready"
    /\ \E trace \in BOOLEAN :
        Rendered([page |-> "Data Audit Trail", pressed |-> trace,
                  error |-> RunPage(AuditBlock(trace)),
                  shown |-> IF trace
                            THEN get_lineage(esg_data, esg_data[1].data_point_id)
                            ELSE <<>>], 0)

\* page "Decarbonization Simulator"
DecarbonizationSimulator ==
    /\ pc = "ready"
    /\ \E simulate \in BOOLEAN :
        Rendered([page |-> "Decarbonization Simulator", pressed |-> simulate,
                  error |-> RunPage(SimulatorBlock(simulate)),
                  shown |-> <<>>], 0)

\* page "Asset Performance"
AssetPerformance ==
    /\ pc = "ready"
    /\ \E selected_asset \in DOMAIN ASSETS :
        Rendered([page |-> "Asset Performance", pressed |-> FALSE,
                  error |-> RunPage(AssetBlock),
                  shown |-> SelectSeq(operational_data,
                                      LAMBDA r : r.asset_name = selected_asset)], 0)

\* an interaction makes the server run the script again in the same process:
\* the streams go on from where they are, the clock is read again
Rerun ==
    /\ pc = "rendered"
    /\ run < MaxRuns
    /\ run' = run + 1
    /\ prior_operational_data' = operational_data
    /\ prior_esg_data' = esg_data
    /\ prior_now' = now
    /\ now' \in {t \in NowSamples : now <= t /\ t <= now + 120}
    /\ operational_data' = <<>>
    /\ esg_data' = <<>>
    /\ asset_i' = 1
    /\ ts_i' = 0
    /\ view' = NoView
    /\ pc' = "operational"
    /\ UNCHANGED <<np_rng, fake_rng, result, repeat, n_calls>>

Next ==
    \/ GenerateRow
    \/ GenerateEsg
    \/ LiveCommandCenter
    \/ BrsrReportGenerator
    \/ DataAuditTrail
    \/ DecarbonizationSimulator
    \/ AssetPerformance
    \/ Rerun

Spec == Init /\ [][Next]_vars

----------------------------------------------------------------------------
(* ESGCalculator on a caller-supplied ReadingTable *)

SampleTimestamps == {MinutesPerDay + 600, MinutesPerDay + 615, 2 * MinutesPerDay + 600}

\* readings of a thermal and of a solar asset: idle, drawing fuel or water
\* while idle, and generating
SampleValues ==
    {[asset_name |-> "Barmer Thermal", generation_mw |-> 0, fuel_consumed_tonnes |-> 0,
      emissions_co2_tonnes |-> 0, water_withdrawal_cum |-> 0],
     [asset_name |-> "Barmer Thermal", generation_mw |-> 0, fuel_consumed_tonnes |-> 1000,
      emissions_co2_tonnes |-> 2500, water_withdrawal_cum |-> 400],
     [asset_name |-> "Barmer Thermal", generation_mw |-> 100000, fuel_consumed_tonnes |-> 250000,
      emissions_co2_tonnes |-> 625000, water_withdrawal_cum |-> 10000],
     [asset_name |-> "Karnataka Solar", generation_mw |-> 0, fuel_consumed_tonnes |-> 0,
      emissions_co2_tonnes |-> 0, water_withdrawal_cum |-> 0],
     [asset_name |-> "Karnataka Solar", generation_mw |-> 0, fuel_consumed_tonnes |-> 0,
      emissions_co2_tonnes |-> 0, water_withdrawal_cum |-> 300],
     [asset_name |-> "Karnataka Solar", generation_mw |-> 30000, fuel_consumed_tonnes |-> 0,
      emissions_co2_tonnes |-> 0, water_withdrawal_cum |-> 3000]}

SampleRows ==
    {[timestamp                 |-> ts,
      asset_name                |-> v.asset_name,
      asset_type                |-> ASSETS[v.asset_name].type,
      capacity                  |-> ASSETS[v.asset_name].capacity,
      generation_mw             |-> v.generation_mw,
      fuel_consumed_tonnes      |-> v.fuel_consumed_tonnes,
      coal_calorific_value_kcal |-> IF ASSETS[v.asset_name].type = "thermal" THEN 3800 ELSE 0,
      emissions_co2_tonnes      |-> v.emissions_co2_tonnes,
      water_withdrawal_cum      |-> v.water_withdrawal_cum,
      operating_efficiency      |-> 9000] : ts \in SampleTimestamps, v \in SampleValues}

SampleTables == UNION {[1..n -> SampleRows] : n \in 1..MaxRows}

\* asset_name arguments: none, a thermal asset, a non-thermal asset
AssetFilters == {None, "Barmer Thermal", "Karnataka Solar"}

CallerPeriods == {"Q1-2024", "FY2024-25"}

\* the state of np.random when the caller hands over the table
CallerSeeds == {0}

InitAgg ==
    /\ np_rng \in CallerSeeds
    /\ fake_rng = 0
    /\ now = 0
    /\ pc = "table"
    /\ asset_i = 1
    /\ ts_i = 0
    /\ operational_data \in SampleTables
    /\ esg_data = <<>>
    /\ run = 1
    /\ prior_operational_data = <<>>
    /\ prior_esg_data = <<>>
    /\ prior_now = 0
    /\ view = NoView
    /\ result = NoResult
    /\ repeat = FALSE
    /\ n_calls = 0

\* a call has returned: its value and the draws it took
Called(method, arg, value, draws) ==
    /\ result' = [method |-> method, arg |-> arg, value |-> value]
    /\ repeat' = (result.method = method /\ result.arg = arg)
    /\ n_calls' = n_calls + 1
    /\ np_rng' = RngAfter(np_rng, draws)
    /\ UNCHANGED <<fake_rng, now, pc, asset_i, ts_i, operational_data, esg_data, run,
                   prior_operational_data, prior_esg_data, prior_now, view>>

CallScope1 ==
    /\ pc = "table"
    /\ n_calls < MaxCalls
    /\ \E asset_name \in AssetFilters :
        Called("calculate_scope1_emissions", asset_name,
               calculate_scope1_emissions(operational_data, asset_name), 0)

CallWater ==
    /\ pc = "table"
    /\ n_calls < MaxCalls
    /\ Called("calculate_water_intensity", None,
              calculate_water_intensity(operational_data), 0)

CallReport ==
    /\ pc = "table"
    /\ n_calls < MaxCalls
    /\ \E reporting_period \in CallerPeriods :
        Called("generate_brsr_report", reporting_period,
               generate_brsr_report(operational_data, reporting_period,
                                    RngAfter(np_rng, 1)), 1)

NextAgg ==
    \/ CallScope1
    \/ CallWater
    \/ CallReport

SpecAgg == InitAgg /\ [][NextAgg]_vars

----------------------------------------------------------------------------
(* Properties *)

\* every reading row generated so far, in this run and the one before
GeneratedRows ==
    {operational_data[i] : i \in 1..Len(operational_data)}
        \cup {prior_operational_data[i] : i \in 1..Len(prior_operational_data)}

\* the sum of f over a finite set of indices
RECURSIVE SumOver(_, _)
SumOver(idx, f) ==
    IF idx = {} THEN 0
    ELSE LET i == CHOOSE j \in idx : TRUE IN f[i] + SumOver(idx \ {i}, f)

\* the thermal readings of the table, by position
ThermalIdx == {i \in 1..Len(operational_data) : operational_data[i].asset_type = "thermal"}

\* the thermal readings of calendar date d
ThermalIdxOn(d) == {i \in ThermalIdx : operational_data[i].timestamp \div MinutesPerDay = d}

IsScope1(arg) == result.method = "calculate_scope1_emissions" /\ result.arg = arg
IsWater == result.method = "calculate_water_intensity"
IsReport == result.method = "generate_brsr_report"

\* the value of a call, a report's data-quality score blanked
WithoutScore(call) ==
    IF call.method = "generate_brsr_report" /\ call.value[1].raised = "none"
    THEN [call.value EXCEPT ![1].Data_Quality_Score = 0]
    ELSE call.value

\* C1 as stated: a call that repeats the call before it, on the table left as it
\* was, returns the value the call before it returned, field for field.
C1_RepeatedCallIdentical ==
    [][repeat' => (operational_data' = operational_data /\ result'.value = result.value)]_vars

\* C1 amended: a call that repeats the call before it, on the table left as it
\* was, returns the same value in every field except the report's
\* Data_Quality_Score, which is drawn again on each call.
C1_RepeatedCallIdenticalButScore ==
    [][repeat' => (/\ operational_data' = operational_data
                   /\ WithoutScore(result') = WithoutScore(result))]_vars

\* a report has been generated twice in a row on a table holding thermal readings
C1_Witness ==
    /\ repeat
    /\ IsReport
    /\ result.value[1].Scope1_Emissions_Total_tCO2e > 0

C3_NonThermalCarriesNoFuel ==
    \A r \in GeneratedRows :
        r.asset_type # "thermal" =>
            /\ r.fuel_consumed_tonnes = 0
            /\ r.coal_calorific_value_kcal = 0
            /\ r.emissions_co2_tonnes = 0

\* the table is complete: it holds generating solar, wind and hydro rows beside
\* thermal rows that burn fuel
C3_Witness ==
    /\ pc = "esg"
    /\ \A t \in {"solar", "wind", "hydro"} :
           \E r \in GeneratedRows : r.asset_type = t /\ r.generation_mw > 0
    /\ \E r \in GeneratedRows : r.asset_type = "thermal" /\ r.fuel_consumed_tonnes > 0

\* C4: calculate_scope1_emissions() without a filter returns exactly one row per
\* calendar date holding a thermal reading, in ascending date order, each row the
\* sums over that date's thermal readings; its emissions column sums to the
\* emissions of all thermal readings; one thermal reading gives that reading back.
C4_Scope1PerDateSums ==
    IsScope1(None) =>
        LET out == result.value
            dates == {operational_data[i].timestamp \div MinutesPerDay : i \in ThermalIdx}
            gen == [i \in ThermalIdx |-> operational_data[i].generation_mw]
            fuel == [i \in ThermalIdx |-> operational_data[i].fuel_consumed_tonnes]
            em == [i \in ThermalIdx |-> operational_data[i].emissions_co2_tonnes]
        IN  /\ Len(out) = Cardinality(dates)
            /\ {out[k].timestamp : k \in 1..Len(out)} = dates
            /\ \A k \in 1..(Len(out) - 1) : out[k].timestamp < out[k + 1].timestamp
            /\ \A k \in 1..Len(out) :
                   /\ out[k].generation_mw = SumOver(ThermalIdxOn(out[k].timestamp), gen)
                   /\ out[k].fuel_consumed_tonnes = SumOver(ThermalIdxOn(out[k].timestamp), fuel)
                   /\ out[k].emissions_co2_tonnes = SumOver(ThermalIdxOn(out[k].timestamp), em)
            /\ SumOver(1..Len(out), [k \in 1..Len(out) |-> out[k].emissions_co2_tonnes])
                   = SumOver(ThermalIdx, em)
            /\ Cardinality(ThermalIdx) = 1 =>
                   \E i \in ThermalIdx :
                       out = <<[timestamp |-> operational_data[i].timestamp \div MinutesPerDay,
                                generation_mw |-> operational_data[i].generation_mw,
                                fuel_consumed_tonnes |-> operational_data[i].fuel_consumed_tonnes,
                                emissions_co2_tonnes |-> operational_data[i].emissions_co2_tonnes]>>

\* the unfiltered call summed two thermal readings taken at different times of
\* one date into one row
C4_Witness ==
    /\ IsScope1(None)
    /\ Len(result.value) = 1
    /\ \E i, j \in ThermalIdx :
           /\ operational_data[i].timestamp # operational_data[j].timestamp
           /\ operational_data[i].emissions_co2_tonnes > 0
           /\ operational_data[j].emissions_co2_tonnes > 0

\* C5: calculate_scope1_emissions(asset_name) with a filter that leaves no thermal
\* reading returns an aggregate of zero rows.
C5_EmptyFilterGivesEmptyAggregate ==
    \A name \in AssetFilters \ {None} :
        (/\ IsScope1(name)
         /\ ~ \E i \in ThermalIdx : operational_data[i].asset_name = name)
            => Len(result.value) = 0

\* the filter named a non-thermal asset of a table that holds thermal readings
C5_Witness ==
    /\ IsScope1("Karnataka Solar")
    /\ ThermalIdx # {}
    /\ \E i \in 1..Len(operational_data) : operational_data[i].asset_name = "Karnataka Solar"
    /\ Len(result.value) = 0

\* C6: every generated row has 0 <= generation_mw <= 1.2 * capacity.
C6_GenerationWithinCapacity ==
    \A r \in GeneratedRows :
        /\ 0 <= r.generation_mw
        /\ r.generation_mw <= r.capacity * 120

\* the table holds a solar row at noon at its highest multiplier, a solar row
\* generating nothing, and a thermal row at its highest multiplier
C6_Witness ==
    /\ \E r \in GeneratedRows : r.asset_type = "solar" /\ r.generation_mw = 41250
    /\ \E r \in GeneratedRows : r.asset_type = "thermal" /\ r.generation_mw = 103950

\* C7: a second run of the generator, the clock reading the same, produces the
\* reading table and the audit table of the first run.
C7_RunsProduceIdenticalTables ==
    (run > 1 /\ pc = "ready" /\ now = prior_now) =>
        /\ operational_data = prior_operational_data
        /\ esg_data = prior_esg_data

\* C8: calculate_water_intensity() returns as many rows as the table holds
\* distinct (calendar date, asset name) pairs, over every asset type.
C8_WaterRowPerDateAndAsset ==
    IsWater =>
        Len(result.value) =
            Cardinality({<<operational_data[i].timestamp \div MinutesPerDay,
                           operational_data[i].asset_name>> : i \in 1..Len(operational_data)})

\* the call grouped two readings of one asset and date, taken at different times,
\* and kept a bucket of a non-thermal asset
C8_Witness ==
    /\ IsWater
    /\ Len(result.value) < Len(operational_data)
    /\ \E k \in 1..Len(result.value) : result.value[k].asset_name = "Karnataka Solar"
    /\ \E i, j \in 1..Len(operational_data) :
           /\ operational_data[i].timestamp # operational_data[j].timestamp
           /\ operational_data[i].asset_name = operational_data[j].asset_name

\* the report the BRSR page rendered
ReportShown == view.page = "BRSR Report Generator" /\ view.pressed

\* C9: on a table built by the generator the report's
\* Renewable_Energy_Percentage is exactly 75, whatever was generated.
C9_RenewablePercentageIs75 ==
    ReportShown => view.shown[1].Renewable_Energy_Percentage = Finite(7500)

\* a report over a table in which the solar asset generated nothing
C9_Witness ==
    /\ ReportShown
    /\ \A i \in 1..Len(operational_data) :
           operational_data[i].asset_type = "solar" => operational_data[i].generation_mw = 0
    /\ view.shown[1].Energy_Generation_Total_MWh > 0

\* C10: no run of create_dashboard reads a local variable that no earlier
\* statement of the run assigned.
C10_NoUnassignedRead == view.error = "none"

====
